---- MODULE Spec2Model ----
(***************************************************************************)
(* Model of datadriven.go: the directive / subtest execution state machine *)
(* (runTestInternal, runDirectiveOrSubTest, runSubTest, runDirective) and  *)
(* the golden-file rewrite encoding.                                       *)
(*                                                                         *)
(* Text is a sequence of one-character strings.  A testing.T hierarchy is  *)
(* a sequence of "failed" flags, one per live T, outermost first.          *)
(***************************************************************************)
EXTENDS Integers, Sequences, FiniteSets, TLC

\* ------------------------------------------------------------------ bounds

\* Largest number of records one run reads from the stream.
MaxRecords == 4
\* Largest number of lines of a handler output in the text specification.
MaxLines == 3

\* ------------------------------------------------------------------- text

NL == "\n"
\* The "----" separator line of the file format.
Delim == <<"-", "-", "-", "-">>
\* Characters strings.TrimSpace removes: those unicode.IsSpace accepts. A
\* character without an escape is written by its code point.
WhiteSpace ==
    {" ", "\t", "\n", "\r", "\f", "U+000B", "U+0085", "U+00A0", "U+1680",
     "U+2000", "U+2001", "U+2002", "U+2003", "U+2004", "U+2005", "U+2006",
     "U+2007", "U+2008", "U+2009", "U+200A", "U+2028", "U+2029", "U+202F",
     "U+205F", "U+3000"}

Empty == <<>>
Hi == <<"h", "i">>
HiNL == <<"h", "i", "\n">>
Bye == <<"b", "y", "e">>
ByeNL == <<"b", "y", "e", "\n">>
BlankOnly == <<"\n">>

\* strings.HasPrefix(s, prefix)
HasPrefix(s, prefix) ==
    /\ Len(prefix) <= Len(s)
    /\ SubSeq(s, 1, Len(prefix)) = prefix

\* strings.HasSuffix(s, suffix)
HasSuffix(s, suffix) ==
    /\ Len(suffix) <= Len(s)
    /\ SubSeq(s, Len(s) - Len(suffix) + 1, Len(s)) = suffix

\* strings.TrimSpace(s)
RECURSIVE TrimLeft(_)
TrimLeft(s) ==
    IF s # <<>> /\ Head(s) \in WhiteSpace THEN TrimLeft(Tail(s)) ELSE s

RECURSIVE TrimRight(_)
TrimRight(s) ==
    IF s # <<>> /\ s[Len(s)] \in WhiteSpace
    THEN TrimRight(SubSeq(s, 1, Len(s) - 1))
    ELSE s

TrimSpace(s) == TrimRight(TrimLeft(s))

\* bufio.ScanLines' dropCR: a line loses one trailing carriage return.
DropCR(line) ==
    IF line # <<>> /\ line[Len(line)] = "\r"
    THEN SubSeq(line, 1, Len(line) - 1)
    ELSE line

\* The lines of a text: one per line terminator, plus a final unterminated
\* line when it is not empty.
RECURSIVE LinesFrom(_, _, _)
LinesFrom(s, cur, acc) ==
    IF s = <<>>
    THEN IF cur = <<>> THEN acc ELSE Append(acc, DropCR(cur))
    ELSE IF Head(s) = NL
         THEN LinesFrom(Tail(s), <<>>, Append(acc, DropCR(cur)))
         ELSE LinesFrom(Tail(s), Append(cur, Head(s)), acc)

FileLines(s) == LinesFrom(s, <<>>, <<>>)

\* bufio.MaxScanTokenSize, the size a bufio.Scanner's buffer grows to.
MaxScanTokenSize == 65536

\* One element of a text that stands for a run of 65535 letters a, which
\* with one more byte reaches MaxScanTokenSize.
LongRun == "a*65535"

\* The characters of one byte in UTF-8 that texts are made of: the
\* printable ASCII characters and the ASCII white space.
Ascii ==
    {"\t", "\n", "\r", "\f", "U+000B", "0", "1", "2", "3", "4", "5", "6",
     "7", "8", "9", "a", "b", "c", "d", "e", "f", "g", "h", "i", "j", "k",
     "l", "m", "n", "o", "p", "q", "r", "s", "t", "u", "v", "w", "x", "y",
     "z", "A", "B", "C", "D", "E", "F", "G", "H", "I", "J", "K", "L", "M",
     "N", "O", "P", "Q", "R", "S", "T", "U", "V", "W", "X", "Y", "Z", "!",
     "\"", "#", "$", "%", "&", "'", "(", ")", "*", "+", ",", "-", ".", "/",
     ":", ";", "<", "=", ">", "?", "@", "[", "\\", "]", "^", "_", "U+0060", "{",
     "|", "}", "~", " "}

\* Characters of two bytes in UTF-8: U+0080 to U+07FF.
TwoBytes == {"U+0085", "U+00A0", "U+00E9"}

\* Characters of three bytes in UTF-8: U+0800 to U+FFFF.
ThreeBytes ==
    {"U+1680", "U+2000", "U+2001", "U+2002", "U+2003", "U+2004", "U+2005",
     "U+2006", "U+2007", "U+2008", "U+2009", "U+200A", "U+200B", "U+2028",
     "U+2029", "U+202F", "U+205F", "U+3000", "U+FEFF"}

\* Characters of four bytes in UTF-8: U+10000 and above.
FourBytes == {"U+1F600"}

\* The bytes of a character in UTF-8, for the characters named above.
ByteLen(c) ==
    CASE c = LongRun -> MaxScanTokenSize - 1
      [] c \in Ascii -> 1
      [] c \in TwoBytes -> 2
      [] c \in ThreeBytes -> 3
      [] c \in FourBytes -> 4

RECURSIVE Bytes(_)
\* len(s) of a Go string.
Bytes(s) == IF s = <<>> THEN 0 ELSE ByteLen(Head(s)) + Bytes(Tail(s))

\* The tokens of bufio.NewScanner(strings.NewReader(s)) with the default
\* split function: one per line terminator, plus a final unterminated
\* line when it is not empty. A line whose terminator is not within the
\* MaxScanTokenSize bytes of the buffer stops the scanner: Scan returns
\* false (the error is ErrTooLong) and what follows is never scanned.
RECURSIVE ScanFrom(_, _, _)
ScanFrom(s, cur, acc) ==
    IF s = <<>>
    THEN IF cur = <<>> THEN acc ELSE Append(acc, DropCR(cur))
    ELSE IF Head(s) = NL
         THEN ScanFrom(Tail(s), <<>>, Append(acc, DropCR(cur)))
         ELSE IF Bytes(cur) + ByteLen(Head(s)) >= MaxScanTokenSize
              THEN acc
              ELSE ScanFrom(Tail(s), Append(cur, Head(s)), acc)

ScanLines(s) == ScanFrom(s, <<>>, <<>>)

\* hasBlankLine(s): some scanned line is empty after TrimSpace; the loop
\* ends when Scan returns false, and scanner.Err() is not looked at.
hasBlankLine(s) ==
    \E i \in 1..Len(ScanLines(s)) : TrimSpace(ScanLines(s)[i]) = <<>>

\* The closure without its append: the handler's text as returned.
NormalizeNoAppend(actual) == actual

\* runDirective's closure: the handler's text gets a line terminator when
\* it is not empty and lacks one.
Normalize(actual) ==
    IF actual # <<>> /\ ~HasSuffix(actual, <<NL>>)
    THEN actual \o <<NL>>
    ELSE actual

\* testDataReader.emit: the text goes to the rewrite buffer as a line.
emit(buf, s) == buf \o s \o <<NL>>

\* runDirective, rewrite branch, with the section put in front of what the
\* buffer holds.
EmitExpectedPrepend(b, actual) ==
    (IF hasBlankLine(actual)
     THEN emit(emit(emit(emit(<<>>, Delim), Delim) \o actual, Delim), Delim)
     ELSE emit(emit(<<>>, Delim), actual)) \o b

\* runDirective, rewrite branch: the expected-output section of one
\* directive appended to the rewrite buffer.
EmitExpected(buf, actual) ==
    IF hasBlankLine(actual)
    THEN emit(emit(emit(emit(buf, Delim), Delim) \o actual, Delim), Delim)
    ELSE emit(emit(buf, Delim), actual)

\* ------------------------------------------------- documented file format

\* The expected-results block that ends at the first blank line (or at the
\* end of the file): "by default, the expected results cannot contain
\* blank lines".
RECURSIVE ReadSimple(_)
ReadSimple(ls) ==
    IF ls = <<>> \/ TrimSpace(Head(ls)) = <<>>
    THEN <<>>
    ELSE Head(ls) \o <<NL>> \o ReadSimple(Tail(ls))

\* The block of the alternate syntax: it ends at the first two successive
\* separator lines.
RECURSIVE ReadBlankSafe(_)
ReadBlankSafe(ls) ==
    IF ls = <<>> THEN <<>>
    ELSE IF Head(ls) = Delim /\ Len(ls) >= 2 /\ ls[2] = Delim THEN <<>>
    ELSE Head(ls) \o <<NL>> \o ReadBlankSafe(Tail(ls))

\* The expected text a file holds from the separator line of a directive
\* on: two separator lines open the alternate syntax.
ParseExpected(text) ==
    LET ls == FileLines(text) IN
    IF ls = <<>> \/ Head(ls) # Delim THEN <<>>
    ELSE IF Len(ls) >= 2 /\ ls[2] = Delim
         THEN ReadBlankSafe(SubSeq(ls, 3, Len(ls)))
         ELSE ReadSimple(Tail(ls))

\* ---------------------------------------------------------------- records

Subtest == <<"s", "u", "b", "t", "e", "s", "t">>
Echo == <<"e", "c", "h", "o">>

End == <<"e", "n", "d">>
Foo == <<"f", "o", "o">>
Bar == <<"b", "a", "r">>
FooBar == <<"f", "o", "o", "/", "b", "a", "r">>
FooBarBaz == <<"f", "o", "o", "/", "b", "a", "r", "/", "b", "a", "z">>
Foobar == <<"f", "o", "o", "b", "a", "r">>

\* Group names the streams of the model use.
Names == {End, Foo, Bar, FooBar, FooBarBaz, Foobar}

\* CmdArg{Key, Vals} of a bare argument.
Arg(key) == [Key |-> key, Vals |-> <<>>]

\* Argument lists of the "subtest" records of the model.
MarkerArgs ==
    {<<>>}
    \cup {<<Arg(n)>> : n \in Names}
    \cup {<<Arg(End), Arg(n)>> : n \in Names \ {End}}
    \cup {<<Arg(Foo), Arg(Bar)>>, <<Arg(End), Arg(Foo), Arg(Foo)>>}

\* Expected texts recorded in the file.
ExpectedTexts == {Empty, HiNL, ByeNL}

\* Texts the handler returns in the state machine.
HandlerTexts == {Empty, Hi, HiNL, Bye, BlankOnly}

\* The handler's return value and what it did with its testing.T.
HandlerResults ==
    {[eff |-> e, text |-> t] : e \in {"return", "error"}, t \in HandlerTexts}
    \cup {[eff |-> e, text |-> <<>>] : e \in {"fatal", "skip", "panic"}}

NoCall == [eff |-> "none", text |-> <<>>]

\* TestData: Pos is the record's number in the stream (0: no record).
TestData(cmd, args, input, expected) ==
    [Pos |-> 0, Cmd |-> cmd, CmdArgs |-> args, Input |-> input,
     Expected |-> expected]

\* The zero TestData.
NoData == TestData(<<>>, <<>>, <<>>, <<>>)

\* The records the reader can deliver.
Records ==
    {TestData(Subtest, a, <<>>, <<>>) : a \in MarkerArgs}
    \cup {TestData(Echo, <<>>, Hi, e) : e \in ExpectedTexts}

\* ------------------------------------------------------------------ state

VARIABLES
    rewriteOn,  \* the rewrite argument of runTestInternal (r.rewrite # nil)
    isFile,     \* the reader is an *os.File (RunTest), not a string reader
    file,       \* content of the test file on storage
    buf,        \* r.rewrite: the rewrite buffer
    pos,        \* number of records the reader has delivered
    data,       \* r.data: the current record
    stack,      \* the runSubTest activations in progress, outermost first
    failed,     \* T.failed of the top-level T and of each open subtest's T
    ret,        \* locals of the runSubTest whose t.Run has just returned
    pc,         \* where the run stands
    outcome,    \* how the top-level test ended
    log,        \* fatal messages reported so far
    calls,      \* Pos of every record the handler was invoked for
    flushes,    \* number of write-backs to the file
    handler,    \* what the handler did at its latest invocation
    orig,       \* content of the test file before the run
    eofAt,      \* number of groups open when r.Next returned false, or -1
    handle,     \* RunTest's file handle: "none", "open" or "closed"
    depthAt,    \* number of groups open at the latest handler call, or -1
    raw,        \* text specification: the handler's return value
    section,    \* text specification: the expected-output section written
    parsed,     \* text specification: the expected text read back
    stage,      \* text specification: step reached
    cmdArgs,    \* argument specification: td.CmdArgs
    scanKey,    \* argument specification: ScanArgs' key
    dests,      \* argument specification: ScanArgs' destinations
    scanMsg,    \* argument specification: ScanArgs' fatal message, or ""
    argText,    \* argument specification: an argument serialized
    argStage,   \* argument specification: step reached
    root,       \* walk specification: the path given to Walk
    fs,         \* walk specification: the files at and below that path
    visits,     \* walk specification: the calls of Walk's callback
    faults,     \* walk specification: the paths os.Stat and ReadDir failed on
    tree,       \* walk specification: the files and directories by now
    changes,    \* walk specification: changes of the tree since Walk's call
    frames,     \* walk specification: the calls of Walk under way
    cbFailed,   \* walk specification: a callback has marked its T failed
    walkFailed, \* walk specification: Walk's T has failed
    walkStage   \* walk specification: step reached

vars == <<rewriteOn, isFile, file, buf, pos, data, stack, failed, ret, pc,
          outcome, log, calls, flushes, handler, orig, eofAt, handle,
          depthAt, raw, section, parsed, stage, cmdArgs, scanKey, dests,
          scanMsg, argText, argStage, root, fs, visits, faults, tree, changes,
          frames, cbFailed, walkFailed, walkStage>>

runVars == <<rewriteOn, isFile, file, buf, pos, data, stack, failed, ret, pc,
             outcome, log, calls, flushes, handler, orig, eofAt, handle,
             depthAt>>

textVars == <<raw, section, parsed, stage>>

argVars == <<cmdArgs, scanKey, dests, scanMsg, argText, argStage>>

walkVars ==
    <<root, fs, visits, faults, tree, changes, frames, cbFailed, walkFailed,
      walkStage>>

\* The variables runTestInternal does not touch.
otherVars == <<textVars, argVars, walkVars>>

\* No run in progress.
RunIdle ==
    /\ rewriteOn = FALSE
    /\ isFile = FALSE
    /\ file = <<>>
    /\ buf = <<>>
    /\ pos = 0
    /\ data = NoData
    /\ stack = <<>>
    /\ failed = <<FALSE>>
    /\ ret = [seenSubTestEnd |-> FALSE, seenSkip |-> FALSE,
              subTestName |-> <<>>, subTestStartPos |-> 0]
    /\ pc = "idle"
    /\ outcome = "running"
    /\ log = <<>>
    /\ calls = <<>>
    /\ flushes = 0
    /\ handler = NoCall
    /\ orig = <<>>
    /\ eofAt = -1
    /\ handle = "none"
    /\ depthAt = -1

\* No text under examination.
TextIdle ==
    /\ raw = <<>>
    /\ section = <<>>
    /\ parsed = <<>>
    /\ stage = "idle"

\* No argument under examination.
ArgsIdle ==
    /\ cmdArgs = <<>>
    /\ scanKey = <<>>
    /\ dests = <<>>
    /\ scanMsg = ""
    /\ argText = <<>>
    /\ argStage = "idle"

\* No walk in progress.
WalkIdle ==
    /\ root = <<>>
    /\ fs = {}
    /\ visits = <<>>
    /\ faults = [stat |-> {}, readdir |-> {}, gone |-> {}]
    /\ tree = [files |-> {}, dirs |-> {}]
    /\ changes = 0
    /\ frames = <<>>
    /\ cbFailed = FALSE
    /\ walkFailed = FALSE
    /\ walkStage = "idle"

\* Contents the test file can have before the run.
OldFiles == {<<"x">>, [i \in 1..24 |-> "x"]}

NoRet ==
    [seenSubTestEnd |-> FALSE, seenSkip |-> FALSE, subTestName |-> <<>>,
     subTestStartPos |-> 0]

\* ---------------------------------------------------------- marker syntax

\* isSubTestStart answering "no group" for a marker whose argument count is
\* not one.
isSubTestStartLenient(d, mandatorySubTestPrefix) ==
    IF d.Cmd # Subtest \/ Len(d.CmdArgs) # 1
    THEN [ok |-> FALSE, fatal |-> "", name |-> <<>>]
    ELSE IF d.CmdArgs[1].Key = End
    THEN [ok |-> FALSE, fatal |-> "subtest end without corresponding start",
          name |-> <<>>]
    ELSE IF ~HasPrefix(d.CmdArgs[1].Key, mandatorySubTestPrefix)
    THEN [ok |-> FALSE, fatal |-> "name of nested subtest must begin with",
          name |-> <<>>]
    ELSE [ok |-> TRUE, fatal |-> "", name |-> d.CmdArgs[1].Key]

\* isSubTestStart without the strings.HasPrefix check.
isSubTestStartNoPrefix(d, mandatorySubTestPrefix) ==
    IF d.Cmd # Subtest
    THEN [ok |-> FALSE, fatal |-> "", name |-> <<>>]
    ELSE IF Len(d.CmdArgs) # 1
    THEN [ok |-> FALSE, fatal |-> "invalid syntax for subtest", name |-> <<>>]
    ELSE IF d.CmdArgs[1].Key = End
    THEN [ok |-> FALSE, fatal |-> "subtest end without corresponding start",
          name |-> <<>>]
    ELSE [ok |-> TRUE, fatal |-> "", name |-> d.CmdArgs[1].Key]

\* isSubTestStart: ok with the group's name, not a start marker, or the
\* message of the Fatalf that ends the goroutine.
isSubTestStart(d, mandatorySubTestPrefix) ==
    IF d.Cmd # Subtest
    THEN [ok |-> FALSE, fatal |-> "", name |-> <<>>]
    ELSE IF Len(d.CmdArgs) # 1
    THEN [ok |-> FALSE, fatal |-> "invalid syntax for subtest", name |-> <<>>]
    ELSE IF d.CmdArgs[1].Key = End
    THEN [ok |-> FALSE, fatal |-> "subtest end without corresponding start",
          name |-> <<>>]
    ELSE IF ~HasPrefix(d.CmdArgs[1].Key, mandatorySubTestPrefix)
    THEN [ok |-> FALSE, fatal |-> "name of nested subtest must begin with",
          name |-> <<>>]
    ELSE [ok |-> TRUE, fatal |-> "", name |-> d.CmdArgs[1].Key]

\* isSubTestEnd
isSubTestEnd(d) ==
    IF d.Cmd # Subtest
    THEN [ok |-> FALSE, fatal |-> ""]
    ELSE IF Len(d.CmdArgs) = 0 \/ d.CmdArgs[1].Key # End
    THEN [ok |-> FALSE, fatal |-> ""]
    ELSE IF Len(d.CmdArgs) > 2
    THEN [ok |-> FALSE, fatal |-> "invalid syntax for subtest end"]
    ELSE [ok |-> TRUE, fatal |-> ""]

\* The prefix without its separator: subTestName instead of subTestName+"/".
MandatoryPrefixNoSep(stk) ==
    IF stk = <<>> THEN <<>> ELSE stk[Len(stk)].subTestName

\* The mandatorySubTestPrefix the innermost loop passes on: "" in
\* runTestInternal, subTestName+"/" in runSubTest.
MandatoryPrefix(stk) ==
    IF stk = <<>> THEN <<>> ELSE stk[Len(stk)].subTestName \o <<"/">>

\* The check reading CmdArgs[0] (the "end" keyword) instead of CmdArgs[1].
EndNameMismatchWrongIndex(r, d) ==
    r.seenSubTestEnd /\ Len(d.CmdArgs) = 2 /\ d.CmdArgs[1].Key # r.subTestName

\* runSubTest's check of the name given after "subtest end".
EndNameMismatch(r, d) ==
    r.seenSubTestEnd /\ Len(d.CmdArgs) = 2 /\ d.CmdArgs[2].Key # r.subTestName

\* --------------------------------------------------------------- file I/O

\* os.File.WriteAt(b, off) on a file's content.
WriteAt(f, b, off) ==
    [i \in 1..(IF Len(f) > off + Len(b) THEN Len(f) ELSE off + Len(b)) |->
        IF i > off /\ i <= off + Len(b) THEN b[i - off] ELSE f[i]]

\* The file left at the length it has.
TruncateKeep(f, size) == f

\* os.File.Truncate(size) on a file's content no shorter than size.
Truncate(f, size) == SubSeq(f, 1, size)

\* runTestInternal: the bytes written back, one trailing line terminator
\* less when the buffer ends with two.
StripEnd(b) ==
    IF Len(b) > 2 /\ b[Len(b)] = NL /\ b[Len(b) - 1] = NL
    THEN SubSeq(b, 1, Len(b) - 1)
    ELSE b

\* ------------------------------------------------------------ the run

Front(s) == SubSeq(s, 1, Len(s) - 1)

Init ==
    /\ rewriteOn \in BOOLEAN
    /\ isFile \in BOOLEAN
    /\ file \in (IF isFile THEN OldFiles ELSE {<<>>})
    /\ buf = <<>>
    /\ pos = 0
    /\ data = NoData
    /\ stack = <<>>
    /\ failed = <<FALSE>>
    /\ ret = NoRet
    /\ pc = (IF isFile THEN "open" ELSE "loop")
    /\ outcome = "running"
    /\ log = <<>>
    /\ calls = <<>>
    /\ flushes = 0
    /\ handler = NoCall
    /\ orig = file
    /\ eofAt = -1
    /\ handle = "none"
    /\ depthAt = -1
    /\ raw = <<>>
    /\ section = <<>>
    /\ parsed = <<>>
    /\ stage = "idle"
    /\ ArgsIdle
    /\ WalkIdle

\* The directive line the reader copies to the rewrite buffer.
HeaderLine(d) == d.Cmd

\* RunTest's deferred function with no effect.
DeferredNone(h) == h

\* RunTest's deferred function, run when RunTest's goroutine leaves
\* RunTest: a handle that was opened is closed.
Deferred(h) == IF h = "open" THEN "closed" ELSE h

\* runtime.Goexit in the goroutine of the innermost T (FailNow, SkipNow):
\* the top-level test ends and RunTest's deferred function runs, or t.Run
\* returns in the enclosing runSubTest after the deferred function has
\* recorded a skip.
Goexit(markFailed, skipped) ==
    LET marks == IF markFailed THEN [i \in DOMAIN failed |-> TRUE] ELSE failed
    IN  IF stack = <<>>
        THEN /\ pc' = "done"
             /\ outcome' = (IF skipped THEN "skipped" ELSE "failed")
             /\ failed' = marks
             /\ ret' = NoRet
             /\ stack' = stack
             /\ handle' = Deferred(handle)
        ELSE /\ pc' = "afterRun"
             /\ outcome' = outcome
             /\ handle' = handle
             /\ failed' = Front(marks)
             /\ stack' = Front(stack)
             /\ ret' = [seenSubTestEnd |-> FALSE, seenSkip |-> skipped,
                        subTestName |-> stack[Len(stack)].subTestName,
                        subTestStartPos |-> stack[Len(stack)].subTestStartPos]

\* TestData.Fatalf / t.Fatalf on the innermost T.
Fatalf(msg, startPos) ==
    /\ log' = Append(log, [msg |-> msg, pos |-> data.Pos, start |-> startPos,
                           depth |-> Len(stack)])
    /\ Goexit(TRUE, FALSE)

\* RunTest's os.OpenFile: the handle is open, or t.Fatal(err) before the
\* deferred function is registered.
OpenFile ==
    /\ pc = "open"
    /\ \/ /\ handle' = "open"
          /\ pc' = "loop"
          /\ UNCHANGED <<stack, failed, ret, outcome, log>>
       \/ Fatalf("open", 0)
    /\ UNCHANGED <<rewriteOn, isFile, file, buf, pos, data, calls, flushes,
                   handler, orig, eofAt, depthAt>>
    /\ UNCHANGED otherVars

\* r.Next(t) delivers a record.
ReadNext ==
    /\ pc = "loop"
    /\ pos < MaxRecords
    /\ \E rec \in Records :
        /\ data' = [rec EXCEPT !.Pos = pos + 1]
        /\ buf' = IF rewriteOn THEN emit(buf, HeaderLine(rec)) ELSE buf
    /\ pos' = pos + 1
    /\ pc' = "dispatch"
    /\ UNCHANGED <<rewriteOn, isFile, file, stack, failed, ret, outcome, log,
                   calls, flushes, handler, orig, eofAt, handle, depthAt>>
    /\ UNCHANGED otherVars

\* r.Next(t) returns false: the loop of runTestInternal ends, or the
\* closure of the innermost runSubTest returns without an end marker.
ReadEOF ==
    /\ pc = "loop"
    /\ data' = NoData
    /\ eofAt' = (IF eofAt = -1 THEN Len(stack) ELSE eofAt)
    /\ IF stack = <<>>
       THEN /\ pc' = "writeback"
            /\ UNCHANGED <<stack, failed, ret>>
       ELSE /\ pc' = "afterRun"
            /\ stack' = Front(stack)
            /\ failed' = Front(failed)
            /\ ret' = [seenSubTestEnd |-> FALSE, seenSkip |-> FALSE,
                       subTestName |-> stack[Len(stack)].subTestName,
                       subTestStartPos |-> stack[Len(stack)].subTestStartPos]
    /\ UNCHANGED <<rewriteOn, isFile, file, buf, pos, outcome, log, calls,
                   flushes, handler, orig, handle, depthAt>>
    /\ UNCHANGED otherVars

\* The loop body up to the handler: isSubTestEnd inside a group, then
\* runDirectiveOrSubTest's isSubTestStart.
Dispatch ==
    /\ pc = "dispatch"
    /\ LET e == isSubTestEnd(data)
           s == isSubTestStart(data, MandatoryPrefix(stack))
       IN  IF stack # <<>> /\ e.fatal # ""
           THEN Fatalf(e.fatal, 0)
           ELSE IF stack # <<>> /\ e.ok
           THEN /\ pc' = "afterRun"
                /\ stack' = Front(stack)
                /\ failed' = Front(failed)
                /\ ret' = [seenSubTestEnd |-> TRUE, seenSkip |-> FALSE,
                           subTestName |-> stack[Len(stack)].subTestName,
                           subTestStartPos |->
                               stack[Len(stack)].subTestStartPos]
                /\ UNCHANGED <<outcome, log, handle>>
           ELSE IF s.fatal # ""
           THEN Fatalf(s.fatal, 0)
           ELSE IF s.ok
           THEN /\ pc' = "loop"
                /\ stack' = Append(stack, [subTestName |-> s.name,
                                           subTestStartPos |-> data.Pos])
                /\ failed' = Append(failed, FALSE)
                /\ UNCHANGED <<ret, outcome, log, handle>>
           ELSE /\ pc' = "directive"
                /\ UNCHANGED <<stack, failed, ret, outcome, log, handle>>
    /\ UNCHANGED <<rewriteOn, isFile, file, buf, pos, data, calls, flushes,
                   handler, orig, eofAt, depthAt>>
    /\ UNCHANGED otherVars

\* runDirective comparing before it looks at the rewrite buffer.
VerdictCompareFirst(rw, expected, actual) ==
    IF expected # actual THEN "mismatch"
    ELSE IF rw THEN "rewrite"
    ELSE "pass"

\* runDirective's choice once the handler has returned on a T that has not
\* failed.
Verdict(rw, expected, actual) ==
    IF rw THEN "rewrite"
    ELSE IF expected # actual THEN "mismatch"
    ELSE "pass"

\* runDirective, and the t.Failed() check that follows it in
\* runDirectiveOrSubTest. A panic of the handler is re-raised by
\* runDirective's deferred function and unwinds the goroutine it occurs in:
\* RunTest's own goroutine outside any group, where RunTest's deferred
\* function runs before the process ends, or the goroutine t.Run started
\* for the innermost group, where the process ends with RunTest still
\* blocked in t.Run.
RunDirective ==
    /\ pc = "directive"
    /\ calls' = Append(calls, data.Pos)
    /\ depthAt' = Len(stack)
    /\ \E h \in HandlerResults :
        /\ handler' = h
        /\ IF h.eff = "panic"
           THEN /\ pc' = "done"
                /\ outcome' = "panicked"
                /\ handle' = (IF stack = <<>> THEN Deferred(handle)
                              ELSE handle)
                /\ UNCHANGED <<buf, stack, failed, ret, log>>
           ELSE IF h.eff = "fatal"
           THEN /\ Fatalf("handler fatal", 0)
                /\ buf' = buf
           ELSE IF h.eff = "skip"
           THEN /\ Goexit(FALSE, TRUE)
                /\ UNCHANGED <<buf, log>>
           ELSE IF h.eff = "error"
           THEN /\ Fatalf("handler error", 0)
                /\ buf' = buf
           ELSE IF Verdict(rewriteOn, data.Expected, Normalize(h.text))
                   = "rewrite"
           THEN /\ buf' = EmitExpected(buf, Normalize(h.text))
                /\ pc' = "loop"
                /\ UNCHANGED <<stack, failed, ret, outcome, log, handle>>
           ELSE IF Verdict(rewriteOn, data.Expected, Normalize(h.text))
                   = "mismatch"
           THEN /\ Fatalf("expected/found", 0)
                /\ buf' = buf
           ELSE /\ pc' = "loop"
                /\ UNCHANGED <<buf, stack, failed, ret, outcome, log,
                               handle>>
    /\ UNCHANGED <<rewriteOn, isFile, file, pos, data, flushes, orig, eofAt>>
    /\ UNCHANGED otherVars

\* runSubTest letting a skipped group end like a completed one.
SubTestExitHonorSkip(r, d, tFailed) ==
    IF r.seenSkip THEN "return"
    ELSE IF EndNameMismatch(r, d) THEN "mismatched subtest end directive"
    ELSE IF ~r.seenSubTestEnd /\ ~tFailed
    THEN "EOF encountered without subtest end directive"
    ELSE IF tFailed THEN "FailNow"
    ELSE "return"

\* runDirectiveOrSubTest without its t.Failed() check after runSubTest.
SubTestExitNoFailNow(r, d, tFailed) ==
    IF r.seenSkip THEN "cannot use t.Skip inside subtest"
    ELSE IF EndNameMismatch(r, d) THEN "mismatched subtest end directive"
    ELSE IF ~r.seenSubTestEnd /\ ~tFailed
    THEN "EOF encountered without subtest end directive"
    ELSE "return"

\* runSubTest without its check for a missing end marker.
SubTestExitNoEOF(r, d, tFailed) ==
    IF r.seenSkip THEN "cannot use t.Skip inside subtest"
    ELSE IF EndNameMismatch(r, d) THEN "mismatched subtest end directive"
    ELSE IF tFailed THEN "FailNow"
    ELSE "return"

\* What runSubTest, and runDirectiveOrSubTest after it, do once t.Run has
\* returned: r holds runSubTest's locals, d is r.data, tFailed is
\* t.Failed() of the T enclosing the group.
SubTestExit(r, d, tFailed) ==
    IF r.seenSkip THEN "cannot use t.Skip inside subtest"
    ELSE IF EndNameMismatch(r, d) THEN "mismatched subtest end directive"
    ELSE IF ~r.seenSubTestEnd /\ ~tFailed
    THEN "EOF encountered without subtest end directive"
    ELSE IF tFailed THEN "FailNow"
    ELSE "return"

\* runSubTest after t.Run has returned, and the t.Failed() check that
\* follows it in runDirectiveOrSubTest; t is the T enclosing the group.
AfterRun ==
    /\ pc = "afterRun"
    /\ LET exit == SubTestExit(ret, data, failed[Len(failed)]) IN
       IF exit = "return"
       THEN /\ pc' = "loop"
            /\ ret' = NoRet
            /\ UNCHANGED <<stack, failed, outcome, log, handle>>
       ELSE IF exit = "FailNow"
       THEN /\ Goexit(TRUE, FALSE)
            /\ log' = log
       ELSE IF exit = "mismatched subtest end directive"
       THEN Fatalf(exit, 0)
       ELSE Fatalf(exit, ret.subTestStartPos)
    /\ UNCHANGED <<rewriteOn, isFile, file, buf, pos, data, calls, flushes,
                   handler, orig, eofAt, depthAt>>
    /\ UNCHANGED otherVars

\* What dest.WriteAt, dest.Truncate and dest.Sync can answer, in the order
\* runTestInternal calls them: all three succeed, or one returns an error.
WriteResults == {"ok", "write error", "truncate error", "sync error"}

\* runTestInternal after its loop: the rewrite buffer replaces the file,
\* an error of WriteAt, Truncate or Sync being t.Fatal(err) with the file
\* as the calls before it left it; then RunTest returns, or its goroutine
\* ends, and its deferred function runs. dest.WriteAt writes until an
\* error stops it: a failing WriteAt has written the first n bytes of the
\* data, n less than their number, so it cannot fail with no data.
WriteBack ==
    /\ pc = "writeback"
    /\ IF rewriteOn /\ isFile
       THEN \E res \in WriteResults, n \in 0..Len(StripEnd(buf)) :
            /\ IF res = "write error" THEN n < Len(StripEnd(buf))
                                      ELSE n = Len(StripEnd(buf))
            /\ flushes' = flushes + 1
            /\ file' = (IF res \in {"write error", "truncate error"}
                        THEN WriteAt(file, SubSeq(StripEnd(buf), 1, n), 0)
                        ELSE Truncate(WriteAt(file, StripEnd(buf), 0),
                                      Len(StripEnd(buf))))
            /\ IF res = "ok"
               THEN /\ pc' = "done"
                    /\ outcome' = (IF failed[1] THEN "failed" ELSE "passed")
                    /\ handle' = Deferred(handle)
                    /\ UNCHANGED <<stack, failed, ret, log>>
               ELSE Fatalf(res, 0)
       ELSE /\ pc' = "done"
            /\ outcome' = (IF failed[1] THEN "failed" ELSE "passed")
            /\ handle' = Deferred(handle)
            /\ UNCHANGED <<file, flushes, stack, failed, ret, log>>
    /\ UNCHANGED <<rewriteOn, isFile, buf, pos, data, calls, handler, orig,
                   eofAt, depthAt>>
    /\ UNCHANGED otherVars

Next == OpenFile \/ ReadNext \/ ReadEOF \/ Dispatch \/ RunDirective
        \/ AfterRun \/ WriteBack

Spec == Init /\ [][Next]_vars

\* -------------------------------------------- write-back specification

\* Largest number of lines in the rewrite buffer at the end of the loop.
MaxBufLines == 6

RECURSIVE BufOf(_)
\* The buffers made of n lines, each empty or "a", each closed by emit.
BufOf(n) ==
    IF n = 0 THEN {<<>>}
    ELSE {emit(b, l) : b \in BufOf(n - 1), l \in {<<>>, <<"a">>}}

\* Contents of the rewrite buffer when r.Next has returned false: the
\* lines of the input and of the sections, copied by emit.
BufTexts == UNION {BufOf(n) : n \in 0..MaxBufLines}

\* runTestInternal in rewrite mode on an open file, its loop over; the
\* records read are left out.
InitWriteBack ==
    /\ rewriteOn = TRUE
    /\ isFile = TRUE
    /\ file \in OldFiles
    /\ buf \in BufTexts
    /\ pos = 0
    /\ data = NoData
    /\ stack = <<>>
    /\ failed = <<FALSE>>
    /\ ret = NoRet
    /\ pc = "writeback"
    /\ outcome = "running"
    /\ log = <<>>
    /\ calls = <<>>
    /\ flushes = 0
    /\ handler = NoCall
    /\ orig = file
    /\ eofAt = 0
    /\ handle = "open"
    /\ depthAt = -1
    /\ raw = <<>>
    /\ section = <<>>
    /\ parsed = <<>>
    /\ stage = "idle"
    /\ ArgsIdle
    /\ WalkIdle

SpecWriteBack == InitWriteBack /\ [][WriteBack]_vars

\* ------------------------------------------------ argument specification

\* Largest number of values of an argument.
MaxVals == 2

\* Largest number of destinations given to ScanArgs.
MaxDests == 2

Digits == {"0", "1", "2", "3", "4", "5", "6", "7", "8", "9"}

DigitVal(c) ==
    CASE c = "0" -> 0 [] c = "1" -> 1 [] c = "2" -> 2 [] c = "3" -> 3
      [] c = "4" -> 4 [] c = "5" -> 5 [] c = "6" -> 6 [] c = "7" -> 7
      [] c = "8" -> 8 [] c = "9" -> 9

RECURSIVE DecVal(_)
\* The number a string of decimal digits denotes.
DecVal(s) ==
    IF s = <<>> THEN 0
    ELSE DecVal(SubSeq(s, 1, Len(s) - 1)) * 10 + DigitVal(s[Len(s)])

\* strconv.ParseUint(s, 10, 64): decimal digits only, no sign. The texts
\* of the model are too short to leave the 64-bit range.
ParseUint(s) ==
    IF s # <<>> /\ \A i \in DOMAIN s : s[i] \in Digits
    THEN [ok |-> TRUE, n |-> DecVal(s)]
    ELSE [ok |-> FALSE, n |-> 0]

\* strconv.ParseInt(s, 10, 64): an optional sign, then ParseUint.
ParseInt(s) ==
    IF s = <<>> THEN [ok |-> FALSE, n |-> 0]
    ELSE LET signed == s[1] \in {"+", "-"}
             u == ParseUint(IF signed THEN SubSeq(s, 2, Len(s)) ELSE s)
         IN  IF ~u.ok THEN [ok |-> FALSE, n |-> 0]
             ELSE [ok |-> TRUE, n |-> IF s[1] = "-" THEN 0 - u.n ELSE u.n]

\* strconv.ParseBool.
ParseBool(s) ==
    IF s \in {<<"1">>, <<"t">>, <<"T">>, <<"T", "R", "U", "E">>,
              <<"t", "r", "u", "e">>, <<"T", "r", "u", "e">>}
    THEN [ok |-> TRUE, b |-> TRUE]
    ELSE IF s \in {<<"0">>, <<"f">>, <<"F">>, <<"F", "A", "L", "S", "E">>,
                   <<"f", "a", "l", "s", "e">>, <<"F", "a", "l", "s", "e">>}
    THEN [ok |-> TRUE, b |-> FALSE]
    ELSE [ok |-> FALSE, b |-> FALSE]

\* CmdArg; the zero value stands for "no argument".
CmdArg(key, vals) == [Key |-> key, Vals |-> vals]

NoArg == CmdArg(<<>>, <<>>)

\* A destination: the type of the variable pointed to, whether Scan has
\* assigned it, and the value it holds (string, integer or boolean).
Dest(kind) == [kind |-> kind, set |-> FALSE, s |-> <<>>, n |-> 0, b |-> FALSE]

DestKinds == {"string", "int", "uint64", "bool", "float64"}

\* CmdArg.Scan: the value at index i parsed into dest, or a fatal message.
Scan(arg, i, dest) ==
    IF i < 1 \/ i > Len(arg.Vals)
    THEN [msg |-> "cannot scan index", dest |-> dest]
    ELSE LET val == arg.Vals[i] IN
         CASE dest.kind = "string" ->
                [msg |-> "", dest |-> [dest EXCEPT !.set = TRUE, !.s = val]]
           [] dest.kind = "int" ->
                IF ParseInt(val).ok
                THEN [msg |-> "",
                      dest |-> [dest EXCEPT !.set = TRUE,
                                            !.n = ParseInt(val).n]]
                ELSE [msg |-> "strconv.ParseInt", dest |-> dest]
           [] dest.kind = "uint64" ->
                IF ParseUint(val).ok
                THEN [msg |-> "",
                      dest |-> [dest EXCEPT !.set = TRUE,
                                            !.n = ParseUint(val).n]]
                ELSE [msg |-> "strconv.ParseUint", dest |-> dest]
           [] dest.kind = "bool" ->
                IF ParseBool(val).ok
                THEN [msg |-> "",
                      dest |-> [dest EXCEPT !.set = TRUE,
                                            !.b = ParseBool(val).b]]
                ELSE [msg |-> "strconv.ParseBool", dest |-> dest]
           [] OTHER -> [msg |-> "unsupported type", dest |-> dest]

RECURSIVE FirstArg(_, _, _)
\* ScanArgs' lookup loop from index i on: the first CmdArg with the key.
FirstArg(args, key, i) ==
    IF i > Len(args) THEN NoArg
    ELSE IF args[i].Key = key THEN args[i]
    ELSE FirstArg(args, key, i + 1)

RECURSIVE ScanEach(_, _, _)
\* ScanArgs' loop over the destinations from index i on; a fatal Scan ends
\* the goroutine, so the destinations after it are not reached.
ScanEach(arg, i, ds) ==
    IF i > Len(ds) THEN [msg |-> "", dests |-> ds]
    ELSE LET r == Scan(arg, i, ds[i]) IN
         IF r.msg # "" THEN [msg |-> r.msg, dests |-> ds]
         ELSE ScanEach(arg, i + 1, [ds EXCEPT ![i] = r.dest])

\* ScanArgs without its comparison of the two lengths.
ScanArgsNoArity(args, key, ds) ==
    LET arg == FirstArg(args, key, 1) IN
    IF arg.Key = <<>> THEN [msg |-> "missing argument", dests |-> ds]
    ELSE ScanEach(arg, 1, ds)

\* TestData.ScanArgs.
ScanArgs(args, key, ds) ==
    LET arg == FirstArg(args, key, 1) IN
    IF arg.Key = <<>> THEN [msg |-> "missing argument", dests |-> ds]
    ELSE IF Len(ds) # Len(arg.Vals)
    THEN [msg |-> "destinations/values", dests |-> ds]
    ELSE ScanEach(arg, 1, ds)

RECURSIVE Join(_, _)
\* strings.Join.
Join(vals, sep) ==
    IF vals = <<>> THEN <<>>
    ELSE IF Len(vals) = 1 THEN vals[1]
    ELSE vals[1] \o sep \o Join(Tail(vals), sep)

\* CmdArg.String joining the values with "," alone.
StringNoSpace(arg) ==
    IF Len(arg.Vals) = 0 THEN arg.Key
    ELSE IF Len(arg.Vals) = 1 THEN arg.Key \o <<"=">> \o arg.Vals[1]
    ELSE arg.Key \o <<"=", "(">> \o Join(arg.Vals, <<",">>) \o <<")">>

\* CmdArg.String.
String(arg) ==
    IF Len(arg.Vals) = 0 THEN arg.Key
    ELSE IF Len(arg.Vals) = 1 THEN arg.Key \o <<"=">> \o arg.Vals[1]
    ELSE arg.Key \o <<"=", "(">> \o Join(arg.Vals, <<",", " ">>) \o <<")">>

RECURSIVE IndexOf(_, _, _)
\* Index of the first c in s from index i on, 0 if there is none.
IndexOf(s, c, i) ==
    IF i > Len(s) THEN 0
    ELSE IF s[i] = c THEN i
    ELSE IndexOf(s, c, i + 1)

RECURSIVE SplitComma(_)
\* The parts of s between its commas.
SplitComma(s) ==
    LET k == IndexOf(s, ",", 1) IN
    IF k = 0 THEN <<s>>
    ELSE <<SubSeq(s, 1, k - 1)>> \o SplitComma(SubSeq(s, k + 1, Len(s)))

\* An argument of a directive line read by the documented forms
\* "argument", "argument=value" and "argument=(values, ...)".
ParseArg(s) ==
    LET eq == IndexOf(s, "=", 1)
        v == SubSeq(s, eq + 1, Len(s))
    IN  IF eq = 0 THEN CmdArg(s, <<>>)
        ELSE IF Len(v) >= 2 /\ v[1] = "(" /\ v[Len(v)] = ")"
        THEN CmdArg(SubSeq(s, 1, eq - 1),
                    LET parts == SplitComma(SubSeq(v, 2, Len(v) - 1))
                    IN  [i \in DOMAIN parts |-> TrimSpace(parts[i])])
        ELSE CmdArg(SubSeq(s, 1, eq - 1), <<v>>)

\* Values an argument can carry.
ValTexts == {<<"1">>, <<"-", "5">>, <<"t">>, <<"x">>}

SeqsUpTo(S, n) == UNION {[1..k -> S] : k \in 0..n}

\* A directive's arguments: none, one, or one followed by a second that
\* has the looked-up key or another.
ArgLists ==
    LET firsts == {CmdArg(k, v) : k \in {<<"a">>, <<"b">>},
                                  v \in SeqsUpTo(ValTexts, MaxVals)}
        seconds == {CmdArg(<<"a">>, <<<<"1">>>>), CmdArg(<<"b">>, <<>>)}
    IN  {<<>>} \cup {<<a>> : a \in firsts}
        \cup {<<a, b>> : a \in firsts, b \in seconds}

\* A handler about to call ScanArgs, or code about to print an argument.
InitArgs ==
    /\ RunIdle
    /\ TextIdle
    /\ WalkIdle
    /\ cmdArgs \in ArgLists
    /\ scanKey \in {<<"a">>, <<>>}
    /\ dests \in {[i \in DOMAIN ks |-> Dest(ks[i])] :
                    ks \in SeqsUpTo(DestKinds, MaxDests)}
    /\ scanMsg = ""
    /\ argText = <<>>
    /\ argStage = "init"

\* td.ScanArgs(t, scanKey, dests...).
ScanArgsStep ==
    /\ argStage = "init"
    /\ dests' = ScanArgs(cmdArgs, scanKey, dests).dests
    /\ scanMsg' = ScanArgs(cmdArgs, scanKey, dests).msg
    /\ argStage' = "scanned"
    /\ UNCHANGED <<cmdArgs, scanKey, argText>>
    /\ UNCHANGED <<runVars, textVars, walkVars>>

\* td.CmdArgs[0].String().
StringStep ==
    /\ argStage = "init"
    /\ cmdArgs # <<>>
    /\ argText' = String(cmdArgs[1])
    /\ argStage' = "serialized"
    /\ UNCHANGED <<cmdArgs, scanKey, dests, scanMsg>>
    /\ UNCHANGED <<runVars, textVars, walkVars>>

\* The serialized argument read back from a directive line and serialized
\* again.
ReparseStep ==
    /\ argStage = "serialized"
    /\ argText' = String(ParseArg(argText))
    /\ argStage' = "reserialized"
    /\ UNCHANGED <<cmdArgs, scanKey, dests, scanMsg>>
    /\ UNCHANGED <<runVars, textVars, walkVars>>

NextArgs == ScanArgsStep \/ StringStep \/ ReparseStep

SpecArgs == InitArgs /\ [][NextArgs]_vars

\* ---------------------------------------------------- walk specification

\* Largest number of files at and below the path given to Walk.
MaxFiles == 2

\* The characters of file names in byte order.
ByteOrder ==
    <<"\n", "#", ".", "a", "b", "c", "d", "e", "f", "g", "h", "i", "j", "k", "l",
      "m", "n", "o", "p", "q", "r", "s", "t", "u", "v", "w", "x", "y", "z",
      "~">>

ByteOf(c) == CHOOSE i \in DOMAIN ByteOrder : ByteOrder[i] = c

RECURSIVE NameLess(_, _)
\* ioutil.ReadDir's order: file names compared as byte strings.
NameLess(m, n) ==
    IF m = <<>> THEN n # <<>>
    ELSE IF n = <<>> THEN FALSE
    ELSE IF m[1] = n[1] THEN NameLess(Tail(m), Tail(n))
    ELSE ByteOf(m[1]) < ByteOf(n[1])

RECURSIVE SortNames(_)
\* The names of a set in ReadDir's order.
SortNames(S) ==
    IF S = {} THEN <<>>
    ELSE LET m == CHOOSE n \in S : \A o \in S \ {n} : NameLess(n, o)
         IN  <<m>> \o SortNames(S \ {m})

\* tempFileRe.MatchString: (^\..*)|(.*~$)|(^#.*#$). The regexp has no
\* flags: ^ and $ match at the ends of the name only, and . matches any
\* character but the line terminator.
TempFile(name) ==
    \/ Len(name) >= 1 /\ name[1] = "."
    \/ Len(name) >= 1 /\ name[Len(name)] = "~"
    \/ /\ Len(name) >= 2 /\ name[1] = "#" /\ name[Len(name)] = "#"
       /\ \A i \in 2..(Len(name) - 1) : name[i] # "\n"

\* The path p is q or lies below q.
Under(p, q) == Len(p) >= Len(q) /\ SubSeq(p, 1, Len(q)) = q

\* os.Stat finds the path: it is a file or a directory of the tree.
Exists(sys, path) == path \in sys.files \cup sys.dirs

\* finfo.IsDir().
IsDir(sys, path) == path \in sys.dirs

\* ioutil.ReadDir: the names of the entries of the directory, sorted.
ReadDir(sys, path) ==
    SortNames({p[Len(path) + 1] :
                 p \in {q \in sys.files \cup sys.dirs :
                           /\ Len(q) = Len(path) + 1
                           /\ SubSeq(q, 1, Len(path)) = path}})

\* The name Walk runs the subtest of an entry under, with the directory's
\* name in front.
SubtestNameWithDir(path, name) == path[Len(path)] \o <<"/">> \o name

\* The name Walk runs the subtest of an entry under: file.Name().
SubtestName(path, name) == name

\* File names: two plain ones, a hidden one, a backup, a lock file, and "#".
PlainNames == {<<"a">>, <<"b">>}

EntryNames ==
    PlainNames \cup {<<".", "a">>, <<"a", "~">>, <<"#", "a", "#">>, <<"#">>,
                     <<"#", "\n", "#">>}

\* Paths of files relative to the walked directory, up to three levels.
WalkPaths ==
    {<<n>> : n \in EntryNames}
    \cup {<<d, n>> : d \in PlainNames \cup {<<".", "a">>},
                     n \in PlainNames \cup {<<"a", "~">>}}
    \cup {<<<<"a">>, <<"b">>, <<"a">>>>, <<<<"b">>, <<"a">>, <<"b">>>>}

\* No file of the set lies below another.
PrefixFree(S) ==
    \A p, q \in S : p # q => ~(Len(p) < Len(q) /\ SubSeq(q, 1, Len(p)) = p)

Testdata == <<"t", "e", "s", "t", "d", "a", "t", "a">>
Logprops == <<"l", "o", "g", "p", "r", "o", "p", "s">>
ScanName == <<"s", "c", "a", "n">>
SelectName == <<"s", "e", "l", "e", "c", "t">>
Typing == <<"t", "y", "p", "i", "n", "g">>

\* The files of Walk's doc comment.
DocFiles ==
    {<<Testdata, Typing>>, <<Testdata, Logprops, ScanName>>,
     <<Testdata, Logprops, SelectName>>}

\* The walked directory of the generic trees.
TreeRoot == <<<<"r">>>>

\* Largest number of things that go wrong during one walk: os.Stat or
\* ioutil.ReadDir failing on a path that is there, and changes of the tree.
MaxFaults == 1

NoFaults == [stat |-> {}, readdir |-> {}, gone |-> {}]

\* The paths Walk can come to: the walked path and what lies below it.
Nodes(files, path) ==
    {path} \cup UNION {{SubSeq(p, 1, k) : k \in (Len(path) + 1)..Len(p)} :
                          p \in {q \in files : Under(q, path)}}

\* The tree that holds the files: every path above a file is a directory,
\* and so is the walked path when it is no file.
TreeOf(files, path) ==
    [files |-> files, dirs |-> Nodes(files, path) \ files]

\* The tree without the file or directory q and all below it.
Without(sys, q) ==
    [files |-> {p \in sys.files : ~Under(p, q)},
     dirs |-> {p \in sys.dirs : ~Under(p, q)}]

\* The tree with the new file q and the directories that lead to it from
\* the walked path.
WithFile(sys, path, q) ==
    [files |-> sys.files \cup {q},
     dirs |-> sys.dirs \cup {SubSeq(q, 1, k) : k \in Len(path)..(Len(q) - 1)}]

\* The files that can appear while Walk is under way: ones with a plain
\* name in the walked path or one level below it, where nothing is yet and
\* no file is in the way.
NewFiles(sys, path) ==
    {path \o r : r \in {q \in {<<m>> : m \in PlainNames}
                               \cup {<<m, n>> : m, n \in PlainNames} :
                          /\ path \o q \notin sys.files \cup sys.dirs
                          /\ \A k \in 0..(Len(q) - 1) :
                                path \o SubSeq(q, 1, k) \notin sys.files}}

\* The call Walk(t, path, f) about to start on a T with the subtests
\* groups open below Walk's first T.
Call(groups, path) ==
    [groups |-> groups, path |-> path, names |-> <<>>, pc |-> "stat"]

\* Walk about to be called: on a directory holding up to MaxFiles files, on
\* a single file, or on one of the three paths of the doc comment.
InitWalk ==
    /\ RunIdle
    /\ TextIdle
    /\ ArgsIdle
    /\ \/ /\ root = TreeRoot
          /\ \E S \in SUBSET WalkPaths :
                /\ Cardinality(S) <= MaxFiles
                /\ PrefixFree(S)
                /\ fs = {TreeRoot \o p : p \in S}
       \/ /\ root = TreeRoot
          /\ fs = {TreeRoot}
       \/ /\ root \in {<<Testdata>>, <<Testdata, Logprops>>,
                       <<Testdata, Typing>>}
          /\ fs = DocFiles
    /\ tree = TreeOf(fs, root)
    /\ faults = NoFaults
    /\ changes = 0
    /\ frames = <<Call(<<>>, root)>>
    /\ visits = <<>>
    /\ cbFailed = FALSE
    /\ walkFailed = FALSE
    /\ walkStage = "walking"

\* The call of Walk that is running: the innermost one; the others wait in
\* t.Run for their subtest.
Top == frames[Len(frames)]

\* One more thing may go wrong.
CanFault ==
    Cardinality(faults.stat) + Cardinality(faults.readdir) + changes
    < MaxFaults

\* The innermost call of Walk returns, or its goroutine ends: t.Run returns
\* in the call that waits, and Walk is over when no call is left.
Return ==
    /\ frames' = SubSeq(frames, 1, Len(frames) - 1)
    /\ walkStage' = (IF Len(frames) = 1 THEN "walked" ELSE "walking")

\* The innermost call goes on at the step at.
Goto(at) == frames' = [frames EXCEPT ![Len(frames)].pc = at]

\* Walk: os.Stat(path). An error is t.Fatal(err), which marks the T and
\* those above it failed and ends the goroutine; os.Stat fails on a path
\* that is not there, and can fail on one that is.
WalkStat ==
    /\ walkStage = "walking"
    /\ Top.pc = "stat"
    /\ \/ /\ ~Exists(tree, Top.path)
          /\ faults' = [faults EXCEPT !.gone = @ \cup {Top.path}]
          /\ walkFailed' = TRUE
          /\ Return
       \/ /\ Exists(tree, Top.path)
          /\ CanFault
          /\ faults' = [faults EXCEPT !.stat = @ \cup {Top.path}]
          /\ walkFailed' = TRUE
          /\ Return
       \/ /\ Exists(tree, Top.path)
          /\ Goto(IF IsDir(tree, Top.path) THEN "readdir" ELSE "callback")
          /\ UNCHANGED <<faults, walkFailed, walkStage>>
    /\ UNCHANGED <<root, fs, visits, tree, changes, cbFailed>>
    /\ UNCHANGED <<runVars, textVars, argVars>>

\* What a call of the callback can end in: it returns, it marks its T
\* failed (t.Error or t.Fatal), or it panics, which ends the process.
CallbackResults == {"return", "fail", "panic"}

\* Walk: the path is no directory, f(t, path) and return.
WalkCallback ==
    /\ walkStage = "walking"
    /\ Top.pc = "callback"
    /\ visits' = Append(visits, [groups |-> Top.groups, path |-> Top.path])
    /\ \E res \in CallbackResults :
          /\ cbFailed' = (cbFailed \/ res = "fail")
          /\ walkFailed' = (walkFailed \/ res = "fail")
          /\ IF res = "panic"
             THEN walkStage' = "panicked" /\ UNCHANGED frames
             ELSE Return
    /\ UNCHANGED <<root, fs, faults, tree, changes>>
    /\ UNCHANGED <<runVars, textVars, argVars>>

\* Walk: ioutil.ReadDir(path). An error is t.Fatal(err); ReadDir fails on
\* a path that is no directory any more, and can fail on one that is.
WalkReadDir ==
    /\ walkStage = "walking"
    /\ Top.pc = "readdir"
    /\ \/ /\ ~IsDir(tree, Top.path)
          /\ faults' = [faults EXCEPT !.gone = @ \cup {Top.path}]
          /\ walkFailed' = TRUE
          /\ Return
       \/ /\ IsDir(tree, Top.path)
          /\ CanFault
          /\ faults' = [faults EXCEPT !.readdir = @ \cup {Top.path}]
          /\ walkFailed' = TRUE
          /\ Return
       \/ /\ IsDir(tree, Top.path)
          /\ frames' = [frames EXCEPT ![Len(frames)].pc = "loop",
                                      ![Len(frames)].names =
                                          ReadDir(tree, Top.path)]
          /\ UNCHANGED <<faults, walkFailed, walkStage>>
    /\ UNCHANGED <<root, fs, visits, tree, changes, cbFailed>>
    /\ UNCHANGED <<runVars, textVars, argVars>>

\* Walk: one pass of the loop over the entries ReadDir returned. An entry
\* that tempFileRe matches is passed over; for any other, t.Run starts the
\* subtest that calls Walk on the entry, and waits for it.
WalkLoop ==
    /\ walkStage = "walking"
    /\ Top.pc = "loop"
    /\ Top.names # <<>>
    /\ LET name == Top.names[1]
           rest == [frames EXCEPT ![Len(frames)].names = Tail(@)]
       IN  frames' = (IF TempFile(name) THEN rest
                      ELSE Append(rest,
                               Call(Append(Top.groups,
                                           SubtestName(Top.path, name)),
                                    Append(Top.path, name))))
    /\ UNCHANGED <<root, fs, visits, faults, tree, changes, cbFailed,
                   walkFailed, walkStage>>
    /\ UNCHANGED <<runVars, textVars, argVars>>

\* Walk: the loop is over, Walk returns.
WalkReturn ==
    /\ walkStage = "walking"
    /\ Top.pc = "loop"
    /\ Top.names = <<>>
    /\ Return
    /\ UNCHANGED <<root, fs, visits, faults, tree, changes, cbFailed,
                   walkFailed>>
    /\ UNCHANGED <<runVars, textVars, argVars>>

\* Between two steps of Walk the tree changes: the callback that has just
\* run, or another process, removes a file or a directory at or below the
\* walked path, or creates a file.
TreeChange ==
    /\ walkStage = "walking"
    /\ CanFault
    /\ \/ \E q \in {p \in tree.files \cup tree.dirs : Under(p, root)} :
             tree' = Without(tree, q)
       \/ \E q \in NewFiles(tree, root) : tree' = WithFile(tree, root, q)
    /\ changes' = changes + 1
    /\ UNCHANGED <<root, fs, visits, faults, frames, cbFailed, walkFailed,
                   walkStage>>
    /\ UNCHANGED <<runVars, textVars, argVars>>

NextWalk ==
    WalkStat \/ WalkCallback \/ WalkReadDir \/ WalkLoop \/ WalkReturn
    \/ TreeChange

SpecWalk == InitWalk /\ [][NextWalk]_vars

\* --------------------------------------------- the rewrite encoding alone

\* Lines of the handler outputs of the text specification.
LineAlphabet ==
    {<<>>, <<"a">>, <<" ">>, <<"\f">>, <<"U+00A0">>, <<"U+200B">>, Delim,
     <<LongRun>>, <<LongRun, "a">>}

\* The texts of at most n lines of LineAlphabet, each line terminated.
RECURSIVE TextsOf(_)
TextsOf(n) ==
    IF n = 0 THEN {<<>>}
    ELSE {<<>>} \cup {l \o <<NL>> \o t : l \in LineAlphabet, t \in TextsOf(n - 1)}

\* Handler outputs: the texts above, with or without their last terminator.
RawTexts ==
    TextsOf(MaxLines) \cup {Front(t) : t \in TextsOf(MaxLines) \ {<<>>}}

\* What follows the rewritten section in the file: a record after it, or
\* nothing.
NextRecordText == Echo \o <<NL>> \o Delim \o <<NL>> \o HiNL

InitText ==
    /\ rewriteOn = TRUE
    /\ isFile = FALSE
    /\ file = <<>>
    /\ buf = <<>>
    /\ pos = 0
    /\ data = NoData
    /\ stack = <<>>
    /\ failed = <<FALSE>>
    /\ ret = NoRet
    /\ pc = "text"
    /\ outcome = "running"
    /\ log = <<>>
    /\ calls = <<>>
    /\ flushes = 0
    /\ handler = NoCall
    /\ orig = <<>>
    /\ eofAt = -1
    /\ handle = "none"
    /\ depthAt = -1
    /\ raw \in RawTexts
    /\ section = <<>>
    /\ parsed = <<>>
    /\ stage = "returned"
    /\ ArgsIdle
    /\ WalkIdle

\* runDirective in rewrite mode on the handler's text, the buffer empty.
RewriteSection ==
    /\ stage = "returned"
    /\ section' = EmitExpected(<<>>, Normalize(raw))
    /\ stage' = "written"
    /\ UNCHANGED <<raw, parsed>>
    /\ UNCHANGED <<runVars, argVars, walkVars>>

\* The written section ends the file (runTestInternal strips the end of the
\* buffer) and is read back.
ReparseAtEnd ==
    /\ stage = "written"
    /\ parsed' = ParseExpected(StripEnd(section))
    /\ stage' = "parsedAtEnd"
    /\ UNCHANGED <<raw, section>>
    /\ UNCHANGED <<runVars, argVars, walkVars>>

\* The written section is followed by another record and is read back.
ReparseBefore ==
    /\ stage = "written"
    /\ parsed' = ParseExpected(section \o NextRecordText)
    /\ stage' = "parsedBefore"
    /\ UNCHANGED <<raw, section>>
    /\ UNCHANGED <<runVars, argVars, walkVars>>

NextText == RewriteSection \/ ReparseAtEnd \/ ReparseBefore

SpecText == InitText /\ [][NextText]_vars

\* ----------------------------------------------------------------- claims

\* A text with one line terminator appended iff it is not empty and does
\* not end with one.
Terminated(t) == IF Len(t) > 0 /\ t[Len(t)] # NL THEN Append(t, NL) ELSE t

\* s begins with p.
BeginsWith(s, p) ==
    Len(p) <= Len(s) /\ \A i \in 1..Len(p) : s[i] = p[i]

\* The handler has just been invoked.
Invoked == calls' # calls

LastMsg(l) == l[Len(l)].msg

AllFailed(f) == \A i \in DOMAIN f : f[i]

\* Some line of t (a line ends at a terminator; the rest after the last
\* terminator is a line when it is not empty) holds nothing but white space.
HasBlank(t) ==
    \E i \in 1..Len(t), j \in 1..(Len(t) + 1) :
        /\ i <= j
        /\ i = 1 \/ t[i - 1] = NL
        /\ \/ j <= Len(t) /\ t[j] = NL
           \/ j = Len(t) + 1 /\ i <= Len(t)
        /\ \A k \in i..(j - 1) : t[k] \in WhiteSpace \ {NL}

DelimLine == Delim \o <<NL>>

\* sec is the blank-line-safe form of a.
IsSafeForm(sec, a) ==
    sec = DelimLine \o DelimLine \o a \o DelimLine \o DelimLine

\* sec is the simple form of a: one delimiter line, then a, the line
\* closed by emit.
IsSimpleForm(sec, a) ==
    sec = DelimLine \o a \/ sec = DelimLine \o a \o <<NL>>

\* What a step added to the rewrite buffer.
Added(b, b2) == SubSeq(b2, Len(b) + 1, Len(b2))

MarkerMessages ==
    {"invalid syntax for subtest", "subtest end without corresponding start",
     "name of nested subtest must begin with",
     "invalid syntax for subtest end", "mismatched subtest end directive",
     "EOF encountered without subtest end directive"}

\* C1: in verification mode a directive whose handler returns on a T that
\* has not failed passes (no message, no failure, the loop goes on) iff
\* its text, terminated, equals the expected text; otherwise a mismatch is
\* reported at that directive, every enclosing T is failed and no later
\* record is read.
C1_VerifyExact ==
    /\ [][(pc = "directive" /\ ~rewriteOn /\ Invoked
           /\ handler'.eff = "return")
          => IF Terminated(handler'.text) = data.Expected
             THEN /\ pc' = "loop"
                  /\ log' = log
                  /\ failed' = failed
                  /\ stack' = stack
                  /\ outcome' = outcome
             ELSE /\ Len(log') = Len(log) + 1
                  /\ LastMsg(log') = "expected/found"
                  /\ log'[Len(log')].pos = data.Pos
                  /\ AllFailed(failed')
                  /\ pc' \in {"afterRun", "done"}]_vars
    /\ [](\A i \in DOMAIN log :
            log[i].msg = "expected/found"
            => failed[1] /\ outcome # "passed" /\ pos = log[i].pos)

\* C1 witness: expected "hi\n", the handler returned "hi", the run goes on.
C1_Witness ==
    /\ ~rewriteOn
    /\ pc = "loop"
    /\ handler = [eff |-> "return", text |-> Hi]
    /\ data.Expected = HiNL
    /\ calls # <<>> /\ calls[Len(calls)] = data.Pos
    /\ ~failed[1]

\* C2: in rewrite mode no mismatch is ever reported; a directive whose
\* handler returns without failing continues the run and adds to the
\* buffer a section holding its terminated text; and a run that does not
\* pass ended by the handler (failure, skip, panic), by a group marker,
\* before the first record because the file could not be opened, or after
\* the last by an error of the write-back.
C2_RewriteNeverCompares ==
    /\ [](rewriteOn => \A i \in DOMAIN log : log[i].msg # "expected/found")
    /\ [][(pc = "directive" /\ rewriteOn /\ Invoked
           /\ handler'.eff = "return")
          => /\ pc' = "loop"
             /\ log' = log
             /\ failed' = failed
             /\ BeginsWith(buf', buf)
             /\ \/ IsSimpleForm(Added(buf, buf'), Terminated(handler'.text))
                \/ IsSafeForm(Added(buf, buf'), Terminated(handler'.text))]_vars
    /\ [](rewriteOn /\ pc = "done" /\ outcome # "passed"
          => \/ handler.eff \in {"error", "fatal", "skip", "panic"}
             \/ log # <<>> /\ log[1].msg \in MarkerMessages
             \/ handle = "none" /\ isFile /\ pos = 0
             \/ isFile /\ flushes = 1 /\ eofAt = 0
                /\ LastMsg(log) \in {"write error", "truncate error",
                                     "sync error"})

\* C2 witness: rewrite mode, expected "hi\n", the handler returned "bye",
\* the run goes on.
C2_Witness ==
    /\ rewriteOn
    /\ pc = "loop"
    /\ handler = [eff |-> "return", text |-> Bye]
    /\ data.Expected = HiNL
    /\ calls # <<>> /\ calls[Len(calls)] = data.Pos
    /\ ~failed[1]

\* C3 as stated: the section written for an actual text, read back by the
\* documented format, is the terminated actual text.
C3_RoundTrip ==
    stage \in {"parsedAtEnd", "parsedBefore"} => parsed = Terminated(raw)

\* C4: the section written is the blank-line-safe form iff the terminated
\* actual text has a line that is empty after trimming, and the simple form
\* otherwise. It fails for a text with such a line after a line of
\* MaxScanTokenSize bytes or more.
C4_FormChoice ==
    stage = "written"
    => IF HasBlank(Terminated(raw))
       THEN IsSafeForm(section, Terminated(raw))
       ELSE IsSimpleForm(section, Terminated(raw))

\* C5 as stated: the file is written at most once, only by the step that
\* follows the end of the stream at top level in a run without failure,
\* exactly once when such a run ends in rewrite mode on a file; a run that
\* ended by a fatal condition, a soft failure or a skip has not written
\* and the file holds its original content.
C5_Original ==
    /\ [](flushes <= 1)
    /\ [](rewriteOn /\ isFile /\ pc = "done" /\ outcome = "passed"
          => flushes = 1)
    /\ []((failed[1] \/ outcome \in {"failed", "skipped"})
          => flushes = 0 /\ file = orig)

\* The run ended by an error of WriteAt, Truncate or Sync.
WriteBackError ==
    /\ log # <<>>
    /\ LastMsg(log) \in {"write error", "truncate error", "sync error"}

\* C5: the file is written at most once, only by the step that follows the
\* end of the stream at top level in a run without failure, exactly once
\* when such a run passes in rewrite mode on a file; a run that failed or
\* was skipped before that step has not written and the file holds its
\* original content; an error of the write-back itself is the only
\* failure after it, and leaves the file with a part of the new data, less
\* than all of it, written over its beginning (write error), overwritten
\* but not cut to length (truncate error), or replaced (sync error).
C5_FlushOnce ==
    /\ [](flushes <= 1)
    /\ [](rewriteOn /\ isFile /\ pc = "done" /\ outcome = "passed"
          => flushes = 1)
    /\ []((failed[1] \/ outcome \in {"failed", "skipped"})
          /\ ~WriteBackError
          => flushes = 0 /\ file = orig)
    /\ [](flushes = 0 => file = orig)
    /\ [](WriteBackError
          => /\ flushes = 1 /\ Len(log) = 1 /\ eofAt = 0
             /\ pc = "done" /\ outcome = "failed"
             /\ LastMsg(log) = "write error"
                => \E n \in 0..(Len(buf) - 1) :
                      /\ Len(file) = (IF n > Len(orig) THEN n
                                      ELSE Len(orig))
                      /\ \A i \in 1..Len(file) :
                            file[i] = (IF i <= n THEN buf[i] ELSE orig[i])
             /\ LastMsg(log) = "sync error"
                => file = buf \/ file = Front(buf)
             /\ LastMsg(log) = "truncate error"
                => \/ BeginsWith(file, buf)
                   \/ BeginsWith(file, Front(buf)))
    /\ [][(flushes' # flushes \/ file' # file)
          => /\ flushes' = flushes + 1
             /\ rewriteOn /\ isFile
             /\ eofAt = 0
             /\ stack = <<>>
             /\ ~failed[1]
             /\ pc' = "done"
             /\ outcome' = "passed" \/ WriteBackError']_vars

\* C5 witness: a run of two records and more has replaced the file.
C5_Witness ==
    /\ pc = "done"
    /\ outcome = "passed"
    /\ flushes = 1
    /\ pos >= 2
    /\ calls # <<>>
    /\ file # orig

\* A start marker: "subtest" with one argument that is not "end".
StartMarker(d) ==
    d.Cmd = Subtest /\ Len(d.CmdArgs) = 1 /\ d.CmdArgs[1].Key # End

\* An end marker: "subtest" whose first argument is "end".
EndMarker(d) ==
    d.Cmd = Subtest /\ Len(d.CmdArgs) >= 1 /\ d.CmdArgs[1].Key = End

\* The prefix a start marker must have: empty at top level, the innermost
\* open group's name and "/" inside a group.
RequiredPrefix(stk) ==
    IF Len(stk) = 0 THEN <<>> ELSE Append(stk[Len(stk)].subTestName, "/")

\* stk2 is stk or stk without its innermost groups.
IsPrefixOf(stk2, stk) ==
    Len(stk2) <= Len(stk) /\ \A i \in 1..Len(stk2) : stk2[i] = stk[i]

\* C6: every open group but the outermost is named with its parent's name
\* and "/" in front; a start marker without the required prefix is fatal
\* and opens no group; a regular directive leaves the open groups, hence
\* the required prefix, as they are.
C6_PrefixInvariant ==
    /\ [](\A i \in 2..Len(stack) :
            BeginsWith(stack[i].subTestName,
                       Append(stack[i - 1].subTestName, "/")))
    /\ [][(pc = "dispatch" /\ StartMarker(data)
           /\ ~BeginsWith(data.CmdArgs[1].Key, RequiredPrefix(stack)))
          => /\ AllFailed(failed')
             /\ Len(log') = Len(log) + 1
             /\ LastMsg(log') = "name of nested subtest must begin with"
             /\ log'[Len(log')].pos = data.Pos
             /\ IsPrefixOf(stack', stack)]_vars
    /\ [][(pc = "directive" /\ pc' = "loop")
          => stack' = stack /\ RequiredPrefix(stack') = RequiredPrefix(stack)]_vars

\* C6 witness: two groups are open, a directive has run, and a start
\* marker with the required prefix is about to open a third.
C6_Witness ==
    /\ Len(stack) = 2
    /\ pc = "dispatch"
    /\ calls # <<>>
    /\ StartMarker(data)
    /\ BeginsWith(data.CmdArgs[1].Key, RequiredPrefix(stack))

\* C7 as stated: a group foo/bar is open only right inside a group foo, and
\* no group bar is open at top level.
C7_Original ==
    /\ \A i \in DOMAIN stack :
          stack[i].subTestName = FooBar
          => i >= 2 /\ stack[i - 1].subTestName = Foo
    /\ stack = <<>> \/ stack[1].subTestName # Bar

\* C7 amended: inside an open group, foo/bar is accepted only if the
\* innermost open group is foo, and bar is rejected; at top level both are
\* accepted.
C7_Nesting ==
    /\ [](\A i \in 2..Len(stack) :
            /\ stack[i].subTestName = FooBar
               => stack[i - 1].subTestName = Foo
            /\ stack[i].subTestName # Bar)
    /\ [][(pc = "dispatch" /\ StartMarker(data)
           /\ data.CmdArgs[1].Key \in {FooBar, Bar})
          => IF \/ stack = <<>>
                \/ /\ data.CmdArgs[1].Key = FooBar
                   /\ stack[Len(stack)].subTestName = Foo
             THEN /\ stack' = Append(stack,
                                     [subTestName |-> data.CmdArgs[1].Key,
                                      subTestStartPos |-> data.Pos])
                  /\ log' = log
                  /\ pc' = "loop"
             ELSE /\ AllFailed(failed')
                  /\ Len(log') = Len(log) + 1
                  /\ IsPrefixOf(stack', stack)]_vars

\* C7 witness: foo/bar has been opened inside foo.
C7_Witness ==
    /\ Len(stack) = 2
    /\ stack[1].subTestName = Foo
    /\ stack[2].subTestName = FooBar
    /\ pc = "loop"

\* C8: an end marker of at most two arguments read inside a group closes
\* the innermost open group and no other; then, if it has a second
\* argument other than that group's name, the run fails fatally at it and
\* no later record is read, and otherwise the loop of the enclosing level
\* goes on with the groups that were open around it.
C8_EndMarker ==
    /\ [][(pc = "dispatch" /\ stack # <<>> /\ EndMarker(data)
           /\ Len(data.CmdArgs) <= 2)
          => /\ stack' = Front(stack)
             /\ failed' = Front(failed)
             /\ log' = log
             /\ pc' = "afterRun"
             /\ ret'.seenSubTestEnd
             /\ ret'.subTestName = stack[Len(stack)].subTestName]_vars
    /\ [][(pc = "afterRun" /\ ret.seenSubTestEnd)
          => IF /\ Len(data.CmdArgs) = 2
                /\ data.CmdArgs[2].Key # ret.subTestName
             THEN /\ AllFailed(failed')
                  /\ Len(log') = Len(log) + 1
                  /\ LastMsg(log') = "mismatched subtest end directive"
                  /\ log'[Len(log')].pos = data.Pos
                  /\ pc' \in {"afterRun", "done"}
             ELSE /\ pc' = "loop"
                  /\ stack' = stack
                  /\ failed' = failed
                  /\ log' = log]_vars
    /\ [](\A i \in DOMAIN log :
            log[i].msg = "mismatched subtest end directive"
            => failed[1] /\ pos = log[i].pos /\ pc \in {"afterRun", "done"})

\* C8 witness: "subtest end foo/bar" has closed foo/bar inside foo and the
\* loop of foo goes on.
C8_Witness ==
    /\ pc = "loop"
    /\ Len(stack) = 1
    /\ stack[1].subTestName = Foo
    /\ EndMarker(data)
    /\ Len(data.CmdArgs) = 2
    /\ data.CmdArgs[2].Key = FooBar
    /\ ~failed[1]

EOFMessage == "EOF encountered without subtest end directive"

\* C9: every open group records the position of its start marker; when the
\* stream ends inside a group in a run without failure, the next step
\* reports the missing end marker with the start position of the innermost
\* open group and fails every enclosing T; such a run neither passes nor
\* writes the file, so a run that passes met the end of the stream at top
\* level.
C9_MissingEnd ==
    /\ [][Len(stack') > Len(stack)
          => /\ StartMarker(data)
             /\ stack' = Append(stack, [subTestName |-> data.CmdArgs[1].Key,
                                        subTestStartPos |-> data.Pos])
             /\ data.Pos = pos]_vars
    /\ [][(pc = "loop" /\ stack # <<>> /\ pos' = pos)
          => /\ eofAt' = Len(stack)
             /\ pc' = "afterRun"
             /\ log' = log
             /\ ret'.subTestStartPos = stack[Len(stack)].subTestStartPos]_vars
    /\ [][(pc = "afterRun" /\ eofAt > 0 /\ ~failed[1] /\ log = <<>>)
          => /\ log' = <<[msg |-> EOFMessage, pos |-> data.Pos,
                         start |-> ret.subTestStartPos,
                         depth |-> Len(stack)]>>
             /\ AllFailed(failed')]_vars
    /\ [](eofAt > 0 => outcome # "passed" /\ flushes = 0 /\ file = orig)
    /\ []((eofAt > 0 /\ pc = "done")
          => /\ outcome = "failed"
             /\ Len(log) = 1
             /\ log[1].msg = EOFMessage
             /\ log[1].start > 0)
    /\ [](outcome = "passed" => eofAt = 0 /\ stack = <<>>)

\* C9 witness: the stream ended with two groups open; the run has failed
\* with the position of the inner start marker.
C9_Witness ==
    /\ pc = "done"
    /\ eofAt = 2
    /\ outcome = "failed"
    /\ log[1].msg = EOFMessage
    /\ log[1].start = 2
    /\ calls # <<>>

\* C10: a fatal message or a handler failure fails every live T at once;
\* from then on no record is read, the handler is not invoked, nothing is
\* emitted, written or reported, and each step leaves one enclosing group
\* until the top-level test has ended as failed; a directive whose handler
\* failed softly is neither compared nor emitted.
C10_StopOnFailure ==
    /\ [](log # <<>> => failed[1])
    /\ [](failed[1] => AllFailed(failed) /\ pc \in {"afterRun", "done"})
    /\ [][failed[1]
          => /\ pos' = pos
             /\ calls' = calls
             /\ buf' = buf
             /\ file' = file
             /\ data' = data
             /\ log' = log
             /\ AllFailed(failed')
             /\ \/ stack = <<>> /\ pc' = "done" /\ outcome' = "failed"
                \/ stack # <<>> /\ stack' = Front(stack) /\ pc' = "afterRun"]_vars
    /\ [][(pc = "directive" /\ Invoked /\ handler'.eff = "error")
          => /\ buf' = buf
             /\ AllFailed(failed')
             /\ Len(log') = Len(log) + 1
             /\ LastMsg(log') = "handler error"]_vars
    /\ []((pc = "done" /\ failed[1]) => outcome = "failed" /\ stack = <<>>)

\* C10 witness: a handler failed softly two groups deep and the top-level
\* test has ended.
C10_Witness ==
    /\ pc = "done"
    /\ outcome = "failed"
    /\ handler.eff = "error"
    /\ log # <<>>
    /\ log[1].depth = 2
    /\ pos = 3

\* C11: a handler that skips while a group is open, at any depth, leaves
\* the group's body; the group is then rejected with the fatal failure
\* "cannot use t.Skip inside subtest" naming the group's start position,
\* every enclosing test is marked failed, the run ends failed (neither
\* skipped nor passed), and no record after the skipping directive is
\* read.
C11_SkipInGroup ==
    /\ [][(pc = "directive" /\ Invoked /\ handler'.eff = "skip"
           /\ stack # <<>>)
          => /\ pc' = "afterRun"
             /\ ret'.seenSkip
             /\ ret'.subTestStartPos = stack[Len(stack)].subTestStartPos
             /\ stack' = Front(stack)
             /\ log' = log]_vars
    /\ [][(pc = "afterRun" /\ ret.seenSkip)
          => /\ log' = Append(log,
                    [msg |-> "cannot use t.Skip inside subtest",
                     pos |-> data.Pos, start |-> ret.subTestStartPos,
                     depth |-> Len(stack)])
             /\ AllFailed(failed')
             /\ pc' \in {"afterRun", "done"}
             /\ pos' = pos]_vars
    /\ [](handler.eff = "skip" /\ depthAt > 0
          => /\ outcome \notin {"skipped", "passed"}
             /\ pc \in {"afterRun", "done"}
             /\ calls[Len(calls)] = pos
             /\ (pc = "done"
                 => /\ outcome = "failed"
                    /\ log[1].msg = "cannot use t.Skip inside subtest"))

\* C11 witness: the handler skipped with two groups open and the run has
\* ended failed.
C11_Witness ==
    /\ handler.eff = "skip"
    /\ depthAt = 2
    /\ pc = "done"
    /\ outcome = "failed"
    /\ log[1].msg = "cannot use t.Skip inside subtest"
    /\ log[1].start = 2

\* C12: records are processed strictly in stream order. The handler is
\* called for the record the reader delivered last, at most once per
\* record and in increasing stream position; the reader is advanced, by
\* one record, only when no directive is in flight; in rewrite mode the
\* buffer only ever grows at its end, and what a returning handler's
\* directive adds there is the section of that handler's text, so sections
\* stand in the order of their directives.
C12_StreamOrder ==
    /\ [](\A i, j \in DOMAIN calls : i < j => calls[i] < calls[j])
    /\ [][Invoked => /\ calls' = Append(calls, pos)
                     /\ data.Pos = pos
                     /\ pc = "directive"
                     /\ pos' = pos]_vars
    /\ [][pos' # pos => /\ pos' = pos + 1
                        /\ pc = "loop"
                        /\ data'.Pos = pos']_vars
    /\ [][BeginsWith(buf', buf)]_vars
    /\ [][(Invoked /\ rewriteOn /\ handler'.eff = "return")
          => \/ IsSimpleForm(Added(buf, buf'), Terminated(handler'.text))
             \/ IsSafeForm(Added(buf, buf'), Terminated(handler'.text))]_vars
    /\ [][(buf' # buf /\ ~Invoked)
          => pos' = pos + 1 /\ Added(buf, buf') = emit(<<>>, data'.Cmd)]_vars

\* C12 witness: rewrite mode, the handler has returned for the first and
\* for the third record, the second having opened a group that is still
\* open.
C12_Witness ==
    /\ rewriteOn
    /\ calls = <<1, 3>>
    /\ handler.eff = "return"
    /\ Len(stack) = 1
    /\ pc = "loop"
    /\ ~failed[1]

\* The text ends with two line terminators.
EndsWithTwoNL(b) == Len(b) >= 2 /\ b[Len(b)] = NL /\ b[Len(b) - 1] = NL

\* C13 as stated: at the end of a rewrite run the data written back is the
\* buffer less its last line terminator when the buffer ends with two line
\* terminators, and the buffer itself otherwise.
C13_StripOne ==
    [][(pc = "writeback" /\ pc' = "done" /\ outcome' = "passed")
       => file' = (IF EndsWithTwoNL(buf) THEN Front(buf) ELSE buf)]_vars

\* C14: once a rewrite run on a file has written back with success, the
\* file holds the rewrite buffer, less its last line terminator only if
\* the buffer ends with two, and nothing else, whatever the length of the
\* old content; a rewrite run on a file that passes has written back; a
\* file not written back keeps its content, and a run on in-memory text
\* never writes.
C14_FileIsBuffer ==
    /\ [](flushes >= 1 /\ outcome = "passed"
          => \/ file = buf
             \/ EndsWithTwoNL(buf) /\ file = Front(buf))
    /\ [](rewriteOn /\ isFile /\ pc = "done" /\ outcome = "passed"
          => flushes = 1)
    /\ [](flushes = 0 => file = orig)
    /\ [](~isFile => flushes = 0 /\ file = <<>>)

\* C14 witness: the run has replaced a longer old content by the buffer,
\* which holds a directive and its section, less the last line terminator.
C14_Witness ==
    /\ flushes = 1
    /\ pc = "done"
    /\ outcome = "passed"
    /\ Len(file) < Len(orig)
    /\ calls # <<>>
    /\ file = Front(buf)

\* Positions of the arguments that carry the looked-up key.
KeyMatches == {i \in DOMAIN cmdArgs : cmdArgs[i].Key = scanKey}

\* The first of them.
TheArg == cmdArgs[CHOOSE i \in KeyMatches : \A j \in KeyMatches : i <= j]

IsUnsignedDecimal(v) == v # <<>> /\ \A i \in DOMAIN v : v[i] \in Digits

IsSignedDecimal(v) ==
    \/ IsUnsignedDecimal(v)
    \/ Len(v) >= 2 /\ v[1] \in {"+", "-"} /\ IsUnsignedDecimal(Tail(v))

TrueWords ==
    {<<"1">>, <<"t">>, <<"T">>, <<"t", "r", "u", "e">>,
     <<"T", "r", "u", "e">>, <<"T", "R", "U", "E">>}

FalseWords ==
    {<<"0">>, <<"f">>, <<"F">>, <<"f", "a", "l", "s", "e">>,
     <<"F", "a", "l", "s", "e">>, <<"F", "A", "L", "S", "E">>}

\* The value text converts to the kind of the destination.
Converts(v, kind) ==
    \/ kind = "string"
    \/ kind = "int" /\ IsSignedDecimal(v)
    \/ kind = "uint64" /\ IsUnsignedDecimal(v)
    \/ kind = "bool" /\ v \in TrueWords \cup FalseWords

\* The destination has been assigned the value the text denotes.
Holds(d, v) ==
    /\ d.set
    /\ d.kind = "string" => d.s = v
    /\ d.kind = "int"
       => d.n = (IF v[1] = "-" THEN 0 - DecVal(Tail(v))
                 ELSE IF v[1] = "+" THEN DecVal(Tail(v))
                 ELSE DecVal(v))
    /\ d.kind = "uint64" => d.n = DecVal(v)
    /\ d.kind = "bool" => d.b = (v \in TrueWords)

\* C15: ScanArgs uses the first argument with the key. It succeeds exactly
\* when that argument exists, has as many values as there are
\* destinations, and every value converts to the kind of its destination,
\* and then every destination holds its converted value. A missing key or
\* an arity mismatch is fatal and changes no destination. A conversion
\* failure at index i is fatal, leaves the destinations from i on
\* unchanged, and the destinations below i hold their converted values.
C15_ScanArgs ==
    [][(argStage = "init" /\ argStage' = "scanned")
       => LET found == KeyMatches # {}
              arity == found /\ Len(TheArg.Vals) = Len(dests)
              bad == {i \in DOMAIN dests :
                        ~Converts(TheArg.Vals[i], dests[i].kind)}
              ok == arity /\ bad = {}
          IN  /\ (scanMsg' = "") <=> ok
              /\ Len(dests') = Len(dests)
              /\ ok => \A i \in DOMAIN dests :
                           /\ dests'[i].kind = dests[i].kind
                           /\ Holds(dests'[i], TheArg.Vals[i])
              /\ ~arity => dests' = dests
              /\ (arity /\ bad # {})
                 => LET i == CHOOSE k \in bad : \A j \in bad : k <= j
                    IN  \A j \in DOMAIN dests :
                           IF j >= i THEN dests'[j] = dests[j]
                           ELSE /\ dests'[j].kind = dests[j].kind
                                /\ Holds(dests'[j], TheArg.Vals[j])]_vars

\* C15 witness: two arguments carry the key, the first has two values;
\* the first value was converted to a signed integer, the second does not
\* convert to an unsigned one, so ScanArgs was fatal with the first
\* destination assigned and the second untouched.
C15_Witness ==
    /\ argStage = "scanned"
    /\ scanMsg = "strconv.ParseUint"
    /\ Len(cmdArgs) = 2 /\ cmdArgs[2].Key = scanKey
    /\ cmdArgs[1] = CmdArg(scanKey, <<<<"-", "5">>, <<"x">>>>)
    /\ dests[1].set /\ dests[1].kind = "int" /\ dests[1].n = 0 - 5
    /\ ~dests[2].set

RECURSIVE CommaSpaced(_)
\* The values in their order, ", " between two of them.
CommaSpaced(vals) ==
    IF Len(vals) = 1 THEN vals[1]
    ELSE CommaSpaced(Front(vals)) \o <<",", " ">> \o vals[Len(vals)]

\* The canonical form of an argument: key, key=value or key=(v1, v2, ...).
Canon(arg) ==
    CASE Len(arg.Vals) = 0 -> arg.Key
      [] Len(arg.Vals) = 1 -> arg.Key \o <<"=">> \o arg.Vals[1]
      [] OTHER -> arg.Key \o <<"=", "(">> \o CommaSpaced(arg.Vals)
                  \o <<")">>

\* C19: an argument serializes to its canonical form, which its number of
\* values determines: the key alone, key=value, or key=(v1, v2, ...) with
\* the values in order and ", " between them; and a canonical form read
\* back as an argument and serialized again is the same string.
C19_Canonical ==
    /\ [](argStage = "serialized" => argText = Canon(cmdArgs[1]))
    /\ [][(argStage = "serialized" /\ argStage' = "reserialized")
          => argText' = argText]_vars

\* C19 witness: the argument a with the values 1 and x was serialized as
\* "a=(1, x)", read back and serialized again.
C19_Witness ==
    /\ argStage = "reserialized"
    /\ cmdArgs[1] = CmdArg(<<"a">>, <<<<"1">>, <<"x">>>>)
    /\ argText = <<"a", "=", "(", "1", ",", " ", "x", ")">>

\* A temporary or hidden name: it starts with ".", ends with "~", or is
\* wrapped in "#...#".
TempName(n) ==
    \/ n # <<>> /\ Head(n) = "."
    \/ n # <<>> /\ n[Len(n)] = "~"
    \/ Len(n) >= 2 /\ Head(n) = "#" /\ n[Len(n)] = "#"

\* The segments of a path below the walked root.
Below(p) == SubSeq(p, Len(root) + 1, Len(p))

\* The walk arrives at the path q: no entry from the root to q is
\* temporary or hidden, and every directory above q could be inspected and
\* listed.
Arrives(q) ==
    /\ BeginsWith(q, root)
    /\ \A i \in DOMAIN Below(q) : ~TempName(Below(q)[i])
    /\ \A k \in Len(root)..(Len(q) - 1) :
          /\ SubSeq(q, 1, k) \notin faults.stat
          /\ SubSeq(q, 1, k) \notin faults.readdir

\* The files the walk arrives at and can inspect.
Reachable == {p \in fs : Arrives(p) /\ p \notin faults.stat}

\* The walk came to a path it could not inspect, or to a directory it
\* could not list.
FaultHit == faults.stat \cup faults.readdir \cup faults.gone # {}

RECURSIVE SegLess(_, _)
\* g comes before h when every directory is listed in the order of its
\* entries' names.
SegLess(g, h) ==
    /\ g # <<>> /\ h # <<>>
    /\ IF g[1] = h[1] THEN SegLess(Tail(g), Tail(h))
       ELSE NameLess(g[1], h[1])

\* C16: Walk on a single file that can be inspected calls the callback
\* once, with that path and no group open. Walk on a directory that
\* nothing changes while it is walked calls it exactly once for every file
\* below the root reached through entries none of which is temporary or
\* hidden (a name that starts with ".", ends with "~" or is wrapped in
\* "#...#") and through directories each of which could be inspected and
\* listed, and for no other. Whatever happens to the tree, no file is
\* visited twice, each call is nested in one group per path segment below
\* the root, named after the entries, the calls follow the order of the
\* directories' entries, and no file is visited through a temporary or
\* hidden entry. The test fails when a path cannot be inspected or a
\* directory cannot be listed, and only so or by the callback. It fails
\* for an entry whose name has a line terminator between two "#": the
\* entry is walked.
C16_Walk ==
    /\ [](walkStage = "walked" /\ changes = 0
          => /\ {visits[i].path : i \in DOMAIN visits} = Reachable
             /\ root \in fs /\ root \notin faults.stat
                => visits = <<[groups |-> <<>>, path |-> root]>>)
    /\ [](/\ \A i \in DOMAIN visits :
                \A k \in DOMAIN visits[i].groups :
                    ~TempName(visits[i].groups[k])
          /\ \A i, j \in DOMAIN visits :
                i # j => visits[i].path # visits[j].path
          /\ \A i \in DOMAIN visits :
                visits[i].groups = Below(visits[i].path)
          /\ \A i, j \in DOMAIN visits :
                i < j => SegLess(visits[i].groups, visits[j].groups))
    /\ [](walkFailed <=> FaultHit \/ cbFailed)

\* The name of a test case: the names of its groups joined by "/".
CaseName(groups) == Join(groups, <<"/">>)

\* C17 as stated: walking testdata/logprops calls the callback twice,
\* under the case names logprops/scan and logprops/select; walking the
\* file testdata/typing calls it once under no group.
C17_Original ==
    [](walkStage = "walked" /\ fs = DocFiles /\ ~FaultHit /\ changes = 0
       => /\ root = <<Testdata, Logprops>>
             => /\ Len(visits) = 2
                /\ CaseName(visits[1].groups)
                   = Logprops \o <<"/">> \o ScanName
                /\ CaseName(visits[2].groups)
                   = Logprops \o <<"/">> \o SelectName
          /\ root = <<Testdata, Typing>>
             => Len(visits) = 1 /\ visits[1].groups = <<>>)

\* C17: walking testdata/logprops calls the callback twice, for
\* testdata/logprops/scan under the case name scan and for
\* testdata/logprops/select under the case name select; walking the file
\* testdata/typing calls it once under no group; the case names
\* logprops/scan and logprops/select arise when testdata is walked.
C17_Scenario ==
    [](walkStage = "walked" /\ fs = DocFiles /\ ~FaultHit /\ changes = 0
       => /\ root = <<Testdata, Logprops>>
             => /\ Len(visits) = 2
                /\ CaseName(visits[1].groups) = ScanName
                /\ visits[1].path = <<Testdata, Logprops, ScanName>>
                /\ CaseName(visits[2].groups) = SelectName
                /\ visits[2].path = <<Testdata, Logprops, SelectName>>
          /\ root = <<Testdata, Typing>>
             => visits = <<[groups |-> <<>>, path |-> root]>>
          /\ root = <<Testdata>>
             => /\ Len(visits) = 3
                /\ CaseName(visits[1].groups)
                   = Logprops \o <<"/">> \o ScanName
                /\ CaseName(visits[2].groups)
                   = Logprops \o <<"/">> \o SelectName
                /\ CaseName(visits[3].groups) = Typing)

\* C17 witness: testdata/logprops has been walked, with two calls.
C17_Witness ==
    /\ walkStage = "walked"
    /\ ~FaultHit /\ changes = 0
    /\ fs = DocFiles
    /\ root = <<Testdata, Logprops>>
    /\ Len(visits) = 2
    /\ visits[2].groups = <<SelectName>>

\* RunTest could not open the file: it failed before the first record and
\* the handler was never called.
OpenFailed ==
    /\ handle = "none"
    /\ outcome = "failed"
    /\ pos = 0
    /\ calls = <<>>
    /\ Len(log) = 1 /\ log[1].msg = "open"

\* C18 as stated: however a run on a file ends (completion, failure at any
\* depth, skip, handler panic), the handle RunTest opened is closed, and a
\* file that cannot be opened ends the run fatally with no handler call.
C18_Original ==
    [](isFile /\ pc = "done" => handle = "closed" \/ OpenFailed)

\* C18: a run on a file that ends by completion, by a fatal or soft
\* failure at any depth, by a skip, or by a handler panic outside every
\* group has closed the handle RunTest opened; the handle is left open
\* only by a handler panic inside a group, which ends the process from
\* the group's goroutine; the handle is open while the run is in progress;
\* and a file that cannot be opened ends the run fatally with no handler
\* call.
C18_HandleClosed ==
    /\ [](isFile /\ pc = "done" /\ ~(outcome = "panicked" /\ depthAt > 0)
          => handle = "closed" \/ OpenFailed)
    /\ [](isFile /\ pc = "done" /\ outcome = "panicked" /\ depthAt > 0
          => handle = "open")
    /\ [](isFile /\ pc \notin {"open", "done"} => handle = "open")
    /\ [](isFile /\ pc = "open" => handle = "none" /\ calls = <<>>)
    /\ [](~isFile => handle = "none")

\* C18 witness: a handler's soft failure with two groups open has ended
\* the run on a file, and the handle is closed.
C18_Witness ==
    /\ isFile
    /\ pc = "done"
    /\ outcome = "failed"
    /\ handler.eff = "error"
    /\ depthAt = 2
    /\ handle = "closed"

\* The marker is acceptable as the start of a group.
StartAccepted(d, stk) ==
    /\ Len(d.CmdArgs) = 1
    /\ d.CmdArgs[1].Key # End
    /\ BeginsWith(d.CmdArgs[1].Key, RequiredPrefix(stk))

\* The marker is acceptable as the end of the innermost open group.
EndAccepted(d, stk) ==
    /\ stk # <<>>
    /\ Len(d.CmdArgs) \in {1, 2}
    /\ d.CmdArgs[1].Key = End

\* C20: a record whose command is "subtest" never reaches the handler. It
\* opens a group when it has exactly one argument that is not "end" and
\* carries the mandatory prefix; it ends the innermost group when a group
\* is open, its first argument is "end" and it has at most two arguments;
\* in every other case it is fatal. So "subtest end" outside every group,
\* "subtest" without argument, a start marker with more than one argument
\* and an end marker with more than one argument after "end" are fatal.
C20_MarkerNeverDispatched ==
    /\ [](pc = "directive" => data.Cmd # Subtest)
    /\ [][Invoked => data.Cmd # Subtest]_vars
    /\ [][(pc = "dispatch" /\ data.Cmd = Subtest)
          => /\ calls' = calls
             /\ IF StartAccepted(data, stack)
                THEN /\ stack' = Append(stack,
                            [subTestName |-> data.CmdArgs[1].Key,
                             subTestStartPos |-> data.Pos])
                     /\ pc' = "loop"
                     /\ log' = log
                ELSE IF EndAccepted(data, stack)
                THEN /\ stack' = Front(stack)
                     /\ ret'.seenSubTestEnd
                     /\ pc' = "afterRun"
                     /\ log' = log
                ELSE /\ Len(log') = Len(log) + 1
                     /\ log'[Len(log')].msg \in MarkerMessages
                     /\ AllFailed(failed')
                     /\ pc' \in {"afterRun", "done"}]_vars
    /\ [][(/\ pc = "dispatch" /\ data.Cmd = Subtest
           /\ \/ Len(data.CmdArgs) = 0
              \/ Len(data.CmdArgs) >= 1 /\ data.CmdArgs[1].Key = End
                 /\ stack = <<>>
              \/ Len(data.CmdArgs) > 1 /\ data.CmdArgs[1].Key # End
              \/ Len(data.CmdArgs) > 2 /\ data.CmdArgs[1].Key = End)
          => /\ log' # log
             /\ AllFailed(failed')
             /\ stack' \in {stack, Front(stack)}
             /\ calls' = calls]_vars

\* C20 witness: inside a group, "subtest end foo foo" was rejected and the
\* run has ended without a handler call for it.
C20_Witness ==
    /\ pc = "done"
    /\ data.Cmd = Subtest
    /\ Len(data.CmdArgs) = 3
    /\ log[1].msg = "invalid syntax for subtest end"
    /\ log[1].depth = 1
    /\ outcome = "failed"
    /\ \A i \in DOMAIN calls : calls[i] # data.Pos
====
